---------------------------- MODULE Spec2Model ----------------------------
(***************************************************************************)
(* A model of cinder's LVM block-storage layer:                            *)
(*   - cinder/volume/utils.py : san_execute and _run_ssh, the pooled       *)
(*     remote execution with retry and randomized backoff, run by          *)
(*     concurrent greenthreads, and check_for_san_setup_error;             *)
(*   - cinder/brick/lvm.py    : the LVM manager bound to one volume group  *)
(*     and its inventory parsers.                                          *)
(* Several state machines share the module: the remote execution (Spec,    *)
(* FairSpec, SanSpec), the configuration check (SetupSpec), the inventory  *)
(* parsers applied to tool output (ParseSpec), the lvcreate command of     *)
(* create_volume (CreateSpec) and the LVM manager over a small system      *)
(* (LvmSpec, InventorySpec, LvmFairSpec).  Each of them leaves the         *)
(* variables of the others unchanged.                                      *)
(***************************************************************************)
EXTENDS Integers, Sequences, FiniteSets, TLC

\* ------------------------------------------------------------ bounds ----
\* ssh_max_pool_conn of the modelled configuration (the option's default is 5).
MaxPoolSize == 2
\* The attempt budget of a run is drawn from 1..MaxAttempts.
MaxAttempts == 2

\* Tool output handed to the parsers has up to MaxLines lines of up to
\* MaxFields fields each.
MaxLines == 3
MaxFields == 5
\* The system has up to MaxLvs logical volume names per volume group.
MaxLvs == 2

\* create_volume is asked for sizes of 1 .. MaxSize gigabytes and for up to
\* MaxMirrors mirrors.
MaxSize == 4100
MaxMirrors == 2

\* max_size + k greenthreads call _run_ssh, with k = 1.
NumCallers == MaxPoolSize + 1
Callers == 1..NumCallers
NoCaller == 0
NoSession == 0

VARIABLES
    \* --- remote execution (cinder/volume/utils.py) ---
    budget,          \* the `attempts` argument the callers of this run pass
    sshpool,         \* self.sshpool has been created
    current_size,    \* sessions the pool has created so far
    free_items,      \* sessions lying in the pool
    hub,             \* the greenthread that keeps the interpreter without yielding
    pc,              \* where each caller of _run_ssh is
    attempts,        \* the local `attempts` of each call
    total_attempts,  \* the local `total_attempts` of each call
    ssh,             \* the session each caller holds (`ssh` of the with block)
    caught,          \* the exception the inner except clause is handling
    runs,            \* how often each call has run ssh_execute
    fails,           \* how often ssh_execute has raised in each call
    sleeps,          \* how often each call has slept in greenthread.sleep
    released,        \* how often each call's session went back to the pool
    result,          \* how each call ended
    \* --- inventory parsers applied to tool output (cinder/brick/lvm.py) ---
    tool_out,        \* the text a tool printed: lines of fields
    parser,          \* the parser that was applied to it last
    parsed,          \* what that parser returned or raised
    \* --- the LVM manager and the system it drives (cinder/brick/lvm.py) ---
    sys_vgs,         \* names of the volume groups of the system
    sys_lvs,         \* logical volumes of the system (snapshots included)
    sys_pvs,         \* physical volumes of the system
    merging,         \* snapshots whose merge was accepted and is not over
    mgr,             \* the LVM object, or NoMgr while none is constructed
    cmds,            \* the commands the last operation issued, in order
    ret,             \* the last operation: its arguments and how it ended
    pre,             \* the system as it was when the last operation began
    \* --- the SAN configuration (cinder/volume/utils.py) ---
    FLAGS,           \* the san_* options
    san_is_local,    \* self.san_is_local of the object san_execute runs on
    setup_error,     \* how check_for_san_setup_error ended, if it ran
    \* --- the lvcreate command of one create_volume call (cinder/brick/lvm.py) ---
    request,         \* the arguments of the call
    command          \* the argv it hands to putils.execute

ssh_vars == <<budget, sshpool, current_size, free_items, hub, pc, attempts,
              total_attempts, ssh, caught, runs, fails, sleeps, released,
              result>>

parse_vars == <<tool_out, parser, parsed>>

lvm_vars == <<sys_vgs, sys_lvs, sys_pvs, merging, mgr, cmds, ret, pre>>

san_vars == <<FLAGS, san_is_local, setup_error>>

create_vars == <<request, command>>

vars == <<ssh_vars, parse_vars, lvm_vars, san_vars, create_vars>>

\* ---------------------------------------------------- remote execution --
\* What utils.ssh_execute does with the command on a session: it returns the
\* output, raises ProcessExecutionError for a non-zero exit code of a command
\* that was delivered, or fails in the transport.
Outcomes == {"return", "ProcessExecutionError", "SSHException"}

NoResult == [kind |-> "none", tried |-> 0]

max_size == MaxPoolSize

SshInit ==
    /\ budget \in 1..MaxAttempts
    /\ sshpool = FALSE
    /\ current_size = 0
    /\ free_items = {}
    /\ hub = NoCaller
    /\ pc = [c \in Callers |-> "start"]
    /\ attempts = [c \in Callers |-> 0]
    /\ total_attempts = [c \in Callers |-> 0]
    /\ ssh = [c \in Callers |-> NoSession]
    /\ caught = [c \in Callers |-> "none"]
    /\ runs = [c \in Callers |-> 0]
    /\ fails = [c \in Callers |-> 0]
    /\ sleeps = [c \in Callers |-> 0]
    /\ released = [c \in Callers |-> 0]
    /\ result = [c \in Callers |-> NoResult]

\* A greenthread runs only while no other one keeps the interpreter.
scheduled(c) == hub \in {NoCaller, c}

\* if not self.sshpool: self.sshpool = utils.SSHPool(..., max_size=...)
ensure_pool_always_new ==
    /\ sshpool' = TRUE
    /\ current_size' = 0
    /\ free_items' = {}

ensure_pool ==
    IF sshpool
    THEN UNCHANGED <<sshpool, current_size, free_items>>
    ELSE /\ sshpool' = TRUE
         /\ current_size' = 0
         /\ free_items' = {}

\* _run_ssh(command, check_exit_code, attempts = n) up to the with
\* statement: total_attempts = attempts.
\* The callers are numbered in the order of their calls.
run_ssh(c, n) ==
    /\ pc[c] = "start"
    /\ \A d \in Callers : d < c => pc[d] # "start"
    /\ scheduled(c)
    /\ ensure_pool
    /\ attempts' = [attempts EXCEPT ![c] = n]
    /\ total_attempts' = [total_attempts EXCEPT ![c] = attempts'[c]]
    /\ pc' = [pc EXCEPT ![c] = "acquire"]
    /\ UNCHANGED <<budget, hub, ssh, caught, runs, fails, sleeps, released,
                   result>>
    /\ UNCHANGED <<parse_vars, lvm_vars, san_vars, create_vars>>

\* A direct call of _run_ssh with the attempt budget of this run.
run_ssh_call(c) == run_ssh(c, budget)

\* SSHPool.get: a free session, or a new one while fewer than max_size exist;
\* otherwise the caller waits.
pool_get(c, s) ==
    \/ s \in free_items /\ current_size' = current_size
    \/ /\ free_items = {}
       /\ current_size < max_size
       /\ s = current_size + 1
       /\ current_size' = s

\* with self.sshpool.item() as ssh:
item_enter(c) ==
    /\ pc[c] = "acquire"
    /\ scheduled(c)
    /\ \E s \in 1..(current_size + 1) :
          /\ pool_get(c, s)
          /\ free_items' = free_items \ {s}
          /\ ssh' = [ssh EXCEPT ![c] = s]
    /\ pc' = [pc EXCEPT ![c] = "loop"]
    /\ UNCHANGED <<budget, sshpool, hub, attempts, total_attempts, caught,
                   runs, fails, sleeps, released, result>>
    /\ UNCHANGED <<parse_vars, lvm_vars, san_vars, create_vars>>

\* Leaving the with block, by return or by exception: the session goes back.
item_exit_leak(c) ==
    /\ free_items' = free_items
    /\ ssh' = [ssh EXCEPT ![c] = NoSession]
    /\ released' = released

item_exit(c) ==
    /\ free_items' = free_items \cup {ssh[c]}
    /\ ssh' = [ssh EXCEPT ![c] = NoSession]
    /\ released' = [released EXCEPT ![c] = @ + 1]

\* while attempts > 0:
while_cond_off_by_one(c) == attempts[c] >= 0

while_cond(c) == attempts[c] > 0

\* greenthread.sleep suspends the caller and yields to the hub.
sleep_hub_blocking(c) == c

sleep_hub(c) == NoCaller

\* except Exception as e: LOG.error(e); greenthread.sleep(...): the sleep is
\* taken whatever is left of the budget.
except_sleep_unless_last(c) ==
    IF attempts'[c] > 0
    THEN /\ sleeps' = [sleeps EXCEPT ![c] = @ + 1]
         /\ hub' = sleep_hub(c)
         /\ pc' = [pc EXCEPT ![c] = "sleep"]
    ELSE /\ sleeps' = sleeps
         /\ hub' = hub
         /\ pc' = pc

except_sleep(c) ==
    /\ sleeps' = [sleeps EXCEPT ![c] = @ + 1]
    /\ hub' = sleep_hub(c)
    /\ pc' = [pc EXCEPT ![c] = "sleep"]

\* One pass of the loop body: attempts -= 1, then ssh_execute.  Its return
\* value is returned through the with block; any exception is caught, logged
\* and followed by the backoff sleep.
run_ssh_attempt(c, outcome) ==
    /\ pc[c] = "loop"
    /\ scheduled(c)
    /\ while_cond(c)
    /\ attempts' = [attempts EXCEPT ![c] = @ - 1]
    /\ runs' = [runs EXCEPT ![c] = @ + 1]
    /\ IF outcome = "return"
       THEN /\ item_exit(c)
            /\ result' = [result EXCEPT ![c] =
                            [kind |-> "returned", tried |-> runs'[c]]]
            /\ pc' = [pc EXCEPT ![c] = "done"]
            /\ UNCHANGED <<caught, fails, sleeps, hub>>
       ELSE /\ caught' = [caught EXCEPT ![c] = outcome]
            /\ fails' = [fails EXCEPT ![c] = @ + 1]
            /\ except_sleep(c)
            /\ UNCHANGED <<free_items, ssh, released, result>>
    /\ UNCHANGED <<budget, sshpool, current_size, total_attempts>>
    /\ UNCHANGED <<parse_vars, lvm_vars, san_vars, create_vars>>

\* The backoff interval (0.2 s to 5 s) is over.
run_ssh_wake(c) ==
    /\ pc[c] = "sleep"
    /\ scheduled(c)
    /\ pc' = [pc EXCEPT ![c] = "loop"]
    /\ hub' = NoCaller
    /\ caught' = [caught EXCEPT ![c] = "none"]
    /\ UNCHANGED <<budget, sshpool, current_size, free_items, attempts,
                   total_attempts, ssh, runs, fails, sleeps, released,
                   result>>
    /\ UNCHANGED <<parse_vars, lvm_vars, san_vars, create_vars>>

\* The loop ran out: raise paramiko.SSHException carrying total_attempts; the
\* with block is left and the outer except clause logs and re-raises.
run_ssh_exhausted(c) ==
    /\ pc[c] = "loop"
    /\ scheduled(c)
    /\ ~ while_cond(c)
    /\ item_exit(c)
    /\ result' = [result EXCEPT ![c] =
                    [kind |-> "SSHException", tried |-> total_attempts[c]]]
    /\ pc' = [pc EXCEPT ![c] = "done"]
    /\ UNCHANGED <<budget, sshpool, current_size, hub, attempts,
                   total_attempts, caught, runs, fails, sleeps>>
    /\ UNCHANGED <<parse_vars, lvm_vars, san_vars, create_vars>>

\* Everything one caller can do.
caller_step(c) ==
    \/ run_ssh_call(c)
    \/ item_enter(c)
    \/ \E o \in Outcomes : run_ssh_attempt(c, o)
    \/ run_ssh_wake(c)
    \/ run_ssh_exhausted(c)

SshNext == \E c \in Callers : caller_step(c)

\* ------------------------------------------------------------ parsers --
\* Text is a sequence of lines and a line a sequence of fields.  Where the
\* tool separates fields by blanks, out.split() yields the fields of all
\* lines in one list; where it separates them by ':', out.split() yields one
\* token per non-empty line and token.split(':') yields its fields.
RECURSIVE Flatten(_)
Flatten(lines) ==
    IF lines = <<>> THEN <<>> ELSE Head(lines) \o Flatten(Tail(lines))

split_ws(out) == Flatten(out)

split_tokens(out) == SelectSeq(out, LAMBDA line : line # <<>>)

Returned(v) == [status |-> "ok", value |-> v]
Raised(e) == [status |-> e, value |-> <<>>]

\* for vg, name, size in izip(*[iter(volumes)] * 3)
get_all_volumes(out) ==
    LET volumes == split_ws(out)
    IN  Returned([k \in 1..(Len(volumes) \div 3) |->
                    [vg   |-> volumes[3 * k - 2],
                     name |-> volumes[3 * k - 1],
                     size |-> volumes[3 * k]]])

\* fields = pv.split(':'); fields[0] .. fields[3]
get_all_physical_volumes(out) ==
    LET pvs == split_tokens(out)
    IN  IF \E i \in 1..Len(pvs) : Len(pvs[i]) < 4
        THEN Raised("IndexError")
        ELSE Returned([i \in 1..Len(pvs) |->
                         [vg        |-> pvs[i][1],
                          name      |-> pvs[i][2],
                          size      |-> pvs[i][3],
                          available |-> pvs[i][4]]])

\* fields = vg.split(':'); fields[0] .. fields[4]
get_all_volume_groups(out) ==
    LET vgs == split_tokens(out)
    IN  IF \E i \in 1..Len(vgs) : Len(vgs[i]) < 5
        THEN Raised("IndexError")
        ELSE Returned([i \in 1..Len(vgs) |->
                         [name      |-> vgs[i][1],
                          size      |-> vgs[i][2],
                          available |-> vgs[i][3],
                          lv_count  |-> vgs[i][4],
                          uuid      |-> vgs[i][5]]])

\* The fields a tool prints per record.
Schema == [get_all_volumes |-> 3, get_all_physical_volumes |-> 4,
           get_all_volume_groups |-> 5]
Parsers == DOMAIN Schema

\* Field j of line i is the token <<i, j>>: every token of a text is distinct
\* and tells where it stood.
TextOf(lens) == [i \in 1..Len(lens) |-> [j \in 1..lens[i] |-> <<i, j>>]]

Texts == UNION {{TextOf(lens) : lens \in [1..n -> 0..MaxFields]} : n \in 0..MaxLines}

ParseIdle ==
    /\ tool_out = <<>>
    /\ parser = "none"
    /\ parsed = Returned(<<>>)

ParseInit ==
    /\ tool_out \in Texts
    /\ parser = "none"
    /\ parsed = Returned(<<>>)

parse_lvs ==
    /\ parser' = "get_all_volumes"
    /\ parsed' = get_all_volumes(tool_out)
    /\ UNCHANGED <<tool_out, ssh_vars, lvm_vars, san_vars, create_vars>>

parse_pvs ==
    /\ parser' = "get_all_physical_volumes"
    /\ parsed' = get_all_physical_volumes(tool_out)
    /\ UNCHANGED <<tool_out, ssh_vars, lvm_vars, san_vars, create_vars>>

parse_vgs ==
    /\ parser' = "get_all_volume_groups"
    /\ parsed' = get_all_volume_groups(tool_out)
    /\ UNCHANGED <<tool_out, ssh_vars, lvm_vars, san_vars, create_vars>>

ParseNext == parse_lvs \/ parse_pvs \/ parse_vgs

\* --------------------------------------------------------- LVM manager --
\* The system: volume groups with their physical and logical volumes.  Sizes
\* are whole gigabytes: n stands for the text "nG".
VgNames == {"vg0", "vg1"}
LvNameList == <<"lv0", "lv1", "lv2", "lv3">>
LvNames == {LvNameList[i] : i \in 1..MaxLvs}
SnapNames == {"snap0"}
LvSize(n) == CHOOSE i \in 1..Len(LvNameList) : LvNameList[i] = n

InitialPvs(v) ==
    IF v = "vg0"
    THEN {[vg |-> v, name |-> "/dev/sda", size |-> 10, available |-> 4]}
    ELSE {[vg |-> v, name |-> "/dev/sdb", size |-> 10, available |-> 6],
          [vg |-> v, name |-> "/dev/sdc", size |-> 10, available |-> 7]}

\* The physical_volumes argument of the constructor: None, or a list.
PvArgs == {[given |-> FALSE, list |-> <<>>],
           [given |-> TRUE, list |-> <<>>],
           [given |-> TRUE, list |-> <<"/dev/sdd">>],
           [given |-> TRUE, list |-> <<"/dev/sdd", "/dev/sde">>]}

NoRecord == [none |-> TRUE]

NoMgr == [constructed |-> FALSE, vg_name |-> "", pv_list |-> <<>>,
          lv_list |-> <<>>, vg_size |-> 0, vg_available_space |-> 0,
          vg_lv_count |-> 0, vg_uuid |-> "None"]

\* self.vg_name = vg_name; self.pv_list = []; ... self.vg_uuid = None
NewMgr(v, pv_list) ==
    [constructed |-> TRUE, vg_name |-> v, pv_list |-> pv_list,
     lv_list |-> <<>>, vg_size |-> 0, vg_available_space |-> 0,
     vg_lv_count |-> 0, vg_uuid |-> "None"]

NoRet == [op |-> "none", args |-> <<>>, raised |-> "none", about |-> "",
          returned |-> "None", value |-> NoRecord]

Ret(op, args, raised, about, returned, value) ==
    [op |-> op, args |-> args, raised |-> raised, about |-> about,
     returned |-> returned, value |-> value]

\* One command handed to putils.execute: the tool, its arguments, the exit
\* code and the text it printed.  execute raises ProcessExecutionError when
\* the exit code is not 0.
Cmd(tool, argv, ok, out) ==
    [tool |-> tool, argv |-> argv, rc |-> IF ok THEN 0 ELSE 5, out |-> out]

RECURSIVE SetToSeq(_)
SetToSeq(S) ==
    IF S = {} THEN <<>>
    ELSE LET x == CHOOSE y \in S : TRUE IN <<x>> \o SetToSeq(S \ {x})

RECURSIVE Sum(_, _)
Sum(S, field) ==
    IF S = {} THEN 0
    ELSE LET x == CHOOSE y \in S : TRUE IN x[field] + Sum(S \ {x}, field)

\* What the tools print (section 6 of the specification).
vgs_names_out(vgs) ==
    LET rows == SetToSeq(vgs) IN [i \in 1..Len(rows) |-> <<rows[i]>>]

lvs_out(v, lvs) ==
    LET rows == SetToSeq({lv \in lvs : lv.vg = v})
    IN  [i \in 1..Len(rows) |-> <<rows[i].vg, rows[i].name, rows[i].size>>]

pvs_out(v, pvs) ==
    LET rows == SetToSeq({pv \in pvs : pv.vg = v})
    IN  [i \in 1..Len(rows) |->
            <<rows[i].vg, rows[i].name, rows[i].size, rows[i].available>>]

Uuid(v) == IF v = "vg0" THEN "uuid-of-vg0" ELSE "uuid-of-vg1"

\* The summary record vgs reports for volume group v.
vgs_report(v, lvs, pvs) ==
    LET mine == {pv \in pvs : pv.vg = v}
    IN  [name      |-> v,
         size      |-> Sum(mine, "size"),
         available |-> Sum(mine, "available"),
         lv_count  |-> Cardinality({lv \in lvs : lv.vg = v}),
         uuid      |-> Uuid(v)]

vgs_out(v, lvs, pvs) ==
    LET r == vgs_report(v, lvs, pvs)
    IN  << <<r.name, r.size, r.available, r.lv_count, r.uuid>> >>

\* vgcreate accepts a new name over a non-empty list of unused devices.
vgcreate_ok(v, pv_list) ==
    /\ v \notin sys_vgs
    /\ pv_list # <<>>
    /\ \A i \in 1..Len(pv_list) : \A pv \in sys_pvs : pv.name # pv_list[i]

\* lvcreate accepts a name that is new in the volume group.
lvcreate_ok(v, name) == \A lv \in sys_lvs : ~ (lv.vg = v /\ lv.name = name)

\* lvconvert --merge accepts a snapshot that is not merging already.
merge_targets(name) ==
    {lv \in sys_lvs : lv.name = name /\ lv.origin # "" /\ lv \notin merging}

\* volume_groups = out.split(); self.vg_name in volume_groups
vg_exists_nonempty(v, out) == split_ws(out) # <<>>

vg_exists(v, out) ==
    \E i \in 1..Len(split_ws(out)) : split_ws(out)[i] = v

\* for r in ref_list: if r['name'] == name: return r  (None otherwise)
NoneRef == [found |-> FALSE, ref |-> NoRecord]

get_volume_first(lv_list, name) ==
    IF lv_list = <<>> THEN NoneRef ELSE [found |-> TRUE, ref |-> lv_list[1]]

\* The characters of the names in use, and Python's `a in b` on two names.
Spell == [lv |-> <<"l", "v">>, lv0 |-> <<"l", "v", "0">>,
          lv1 |-> <<"l", "v", "1">>, lv2 |-> <<"l", "v", "2">>,
          lv3 |-> <<"l", "v", "3">>, lv0x |-> <<"l", "v", "0", "x">>,
          snap0 |-> <<"s", "n", "a", "p", "0">>]

name_in(a, b) ==
    \E i \in 0..(Len(Spell[b]) - Len(Spell[a])) :
        SubSeq(Spell[b], i + 1, i + Len(Spell[a])) = Spell[a]

get_volume_containing(lv_list, name) ==
    LET idx == {i \in 1..Len(lv_list) : name_in(name, lv_list[i].name)}
    IN  IF idx = {} THEN NoneRef
        ELSE [found |-> TRUE,
              ref |-> lv_list[CHOOSE i \in idx : \A j \in idx : i <= j]]

get_volume(lv_list, name) ==
    LET idx == {i \in 1..Len(lv_list) : lv_list[i].name = name}
    IN  IF idx = {} THEN NoneRef
        ELSE [found |-> TRUE,
              ref |-> lv_list[CHOOSE i \in idx : \A j \in idx : i <= j]]

\* The system as an operation finds it.
SystemNow == [vgs |-> sys_vgs, lvs |-> sys_lvs, pvs |-> sys_pvs]

LvmIdle ==
    /\ sys_vgs = {}
    /\ sys_lvs = {}
    /\ sys_pvs = {}
    /\ merging = {}
    /\ mgr = NoMgr
    /\ cmds = <<>>
    /\ ret = NoRet
    /\ pre = [vgs |-> {}, lvs |-> {}, pvs |-> {}]

LvmInit ==
    /\ sys_vgs \in SUBSET VgNames
    /\ sys_lvs \in SUBSET {[vg |-> v, name |-> n, size |-> LvSize(n),
                            origin |-> ""] : v \in sys_vgs, n \in LvNames}
    /\ sys_pvs = UNION {InitialPvs(v) : v \in sys_vgs}
    /\ merging = {}
    /\ mgr = NoMgr
    /\ cmds = <<>>
    /\ ret = NoRet
    /\ pre = [vgs |-> {}, lvs |-> {}, pvs |-> {}]

\* if create_vg and physical_volumes is not None
create_vg_whenever_asked(create_vg, physical_volumes) == create_vg

wants_create_vg(create_vg, physical_volumes) ==
    create_vg /\ physical_volumes.given

\* LVM.__init__(vg_name, create_vg, physical_volumes); `fail` names the tool
\* the environment lets fail, if any.
lvm_init(v, create_vg, physical_volumes, fail) ==
    /\ ~ mgr.constructed
    /\ LET creating == wants_create_vg(create_vg, physical_volumes)
           pv_list == physical_volumes.list
           created == creating /\ fail # "vgcreate" /\ vgcreate_ok(v, pv_list)
           c1 == Cmd("vgcreate", <<v, <<",", pv_list>> >>, created, <<>>)
           vgs1 == IF created THEN sys_vgs \cup {v} ELSE sys_vgs
           out == IF fail = "vgs" THEN <<>> ELSE vgs_names_out(vgs1)
           c2 == Cmd("vgs", <<"--noheadings", "-o", "name">>, fail # "vgs", out)
           outcome ==
               IF creating /\ ~ created THEN "ProcessExecutionError"
               ELSE IF fail = "vgs" THEN "ProcessExecutionError"
               ELSE IF vg_exists(v, out) THEN "none"
               ELSE "VolumeGroupNotFound"
       IN  /\ fail = "vgcreate" => creating
           /\ cmds' = IF creating
                      THEN IF created THEN <<c1, c2>> ELSE <<c1>>
                      ELSE <<c2>>
           /\ sys_vgs' = vgs1
           /\ sys_pvs' = IF created
                         THEN sys_pvs \cup
                              {[vg |-> v, name |-> pv_list[i], size |-> 10,
                                available |-> 10] : i \in 1..Len(pv_list)}
                         ELSE sys_pvs
           /\ mgr' = IF outcome = "none"
                     THEN NewMgr(v, IF creating THEN pv_list ELSE <<>>)
                     ELSE NoMgr
           /\ ret' = Ret("__init__", <<v, create_vg, physical_volumes>>,
                         outcome,
                         IF outcome = "VolumeGroupNotFound" THEN v ELSE "",
                         "None", NoRecord)
    /\ pre' = SystemNow
    /\ UNCHANGED <<sys_lvs, merging>>
    /\ UNCHANGED <<ssh_vars, parse_vars, san_vars, create_vars>>

\* if type != 'thin': size = source_lvref['size']; cmd += ['-L', size]
snapshot_size_always(type, source_lvref) == <<"-L", source_lvref.size>>

snapshot_size(type, source_lvref) ==
    IF type # "thin" THEN <<"-L", source_lvref.size>> ELSE <<>>

\* LVM.create_lv_snapshot(name, source_lv_name, type)
create_lv_snapshot(name, source_lv_name, type, fail) ==
    /\ mgr.constructed
    /\ LET out == lvs_out(mgr.vg_name, sys_lvs)
           q == Cmd("lvs", <<"--noheadings", "-o", "vg_name,name,size",
                             mgr.vg_name>>, TRUE, out)
           lv_list == get_all_volumes(out).value
           source_lvref == get_volume(lv_list, source_lv_name)
           accepted == ~ fail /\ lvcreate_ok(mgr.vg_name, name)
           argv == <<"--name", name, "--snapshot",
                     <<mgr.vg_name, "/", source_lv_name>> >>
                   \o snapshot_size(type, source_lvref.ref)
       IN  /\ mgr' = [mgr EXCEPT !.lv_list = lv_list]
           /\ IF ~ source_lvref.found
              THEN /\ cmds' = <<q>>
                   /\ ret' = Ret("create_lv_snapshot",
                                 <<name, source_lv_name, type>>,
                                 "none", "", "False", NoRecord)
                   /\ UNCHANGED sys_lvs
              ELSE /\ cmds' = <<q, Cmd("lvcreate", argv, accepted, <<>>)>>
                   /\ ret' = Ret("create_lv_snapshot",
                                 <<name, source_lv_name, type>>,
                                 IF accepted THEN "none"
                                 ELSE "ProcessExecutionError",
                                 "", "None", NoRecord)
                   /\ sys_lvs' = IF accepted
                                 THEN sys_lvs \cup
                                      {[vg |-> mgr.vg_name, name |-> name,
                                        size |-> source_lvref.ref.size,
                                        origin |-> source_lv_name]}
                                 ELSE sys_lvs
    /\ pre' = SystemNow
    /\ UNCHANGED <<sys_vgs, sys_pvs, merging>>
    /\ UNCHANGED <<ssh_vars, parse_vars, san_vars, create_vars>>

\* putils.execute('lvconvert', '--merge', snapshot_name, ...) and nothing
\* after it.
revert_cmds_polling(snapshot_name, accepted) ==
    <<Cmd("lvconvert", <<"--merge", snapshot_name>>, accepted, <<>>),
      Cmd("lvs", <<"--noheadings", "-o", "vg_name,name,size">>, TRUE, <<>>)>>

revert_cmds(snapshot_name, accepted) ==
    <<Cmd("lvconvert", <<"--merge", snapshot_name>>, accepted, <<>>)>>

\* LVM.revert(snapshot_name)
revert(snapshot_name, fail) ==
    /\ mgr.constructed
    /\ LET accepted == ~ fail /\ merge_targets(snapshot_name) # {}
       IN  /\ cmds' = revert_cmds(snapshot_name, accepted)
           /\ merging' = IF accepted
                         THEN merging \cup merge_targets(snapshot_name)
                         ELSE merging
           /\ ret' = Ret("revert", <<snapshot_name>>,
                         IF accepted THEN "none" ELSE "ProcessExecutionError",
                         "", "None", NoRecord)
    /\ pre' = SystemNow
    /\ UNCHANGED <<sys_vgs, sys_lvs, sys_pvs, mgr>>
    /\ UNCHANGED <<ssh_vars, parse_vars, san_vars, create_vars>>

\* The merge of a snapshot into its origin ends, outside this layer: the
\* snapshot is consumed.
merge_complete(s) ==
    /\ s \in merging
    /\ merging' = merging \ {s}
    /\ sys_lvs' = sys_lvs \ {s}
    /\ UNCHANGED <<sys_vgs, sys_pvs, mgr, cmds, ret, pre>>
    /\ UNCHANGED <<ssh_vars, parse_vars, san_vars, create_vars>>

\* vg_list = self.get_all_physical_volumes(self.vg_name)
update_listing(v) == get_all_physical_volumes(pvs_out(v, sys_pvs))

\* self.vg_size = vg_list[0]['size'] ... self.vg_uuid = vg_list[0]['uuid']:
\* the assignments run in order and the first missing key raises KeyError.
assign_vg_info(m, r) ==
    IF "size" \notin DOMAIN r THEN [mgr |-> m, raised |-> "KeyError"]
    ELSE LET m1 == [m EXCEPT !.vg_size = r.size] IN
    IF "available" \notin DOMAIN r THEN [mgr |-> m1, raised |-> "KeyError"]
    ELSE LET m2 == [m1 EXCEPT !.vg_available_space = r.available] IN
    IF "lv_count" \notin DOMAIN r THEN [mgr |-> m2, raised |-> "KeyError"]
    ELSE LET m3 == [m2 EXCEPT !.vg_lv_count = r.lv_count] IN
    IF "uuid" \notin DOMAIN r THEN [mgr |-> m3, raised |-> "KeyError"]
    ELSE [mgr |-> [m3 EXCEPT !.vg_uuid = r.uuid], raised |-> "none"]

\* LVM.update_volume_group_info()
update_volume_group_info ==
    /\ mgr.constructed
    /\ LET listing == update_listing(mgr.vg_name)
           vg_list == listing.value
           q == Cmd("pvs", <<"--noheadings", "-o", "vg_name,name,size,free",
                             "--separator", ":", mgr.vg_name>>, TRUE,
                    pvs_out(mgr.vg_name, sys_pvs))
       IN  /\ cmds' = <<q>>
           /\ IF listing.status # "ok"
              THEN /\ mgr' = mgr
                   /\ ret' = Ret("update_volume_group_info", <<>>,
                                 listing.status, "", "None", NoRecord)
              ELSE IF vg_list = <<>>
              THEN /\ mgr' = mgr
                   /\ ret' = Ret("update_volume_group_info", <<>>,
                                 "IndexError", "", "None", NoRecord)
              ELSE LET a == assign_vg_info(mgr, vg_list[1])
                   IN  /\ mgr' = a.mgr
                       /\ ret' = IF a.raised = "none"
                                 THEN Ret("update_volume_group_info", <<>>,
                                          "none", "", "record", vg_list[1])
                                 ELSE Ret("update_volume_group_info", <<>>,
                                          a.raised, "", "None", NoRecord)
    /\ pre' = SystemNow
    /\ UNCHANGED <<sys_vgs, sys_lvs, sys_pvs, merging>>
    /\ UNCHANGED <<ssh_vars, parse_vars, san_vars, create_vars>>

\* ------------------------------------------------------ create_volume --
\* The words of an argv: a string, a size text "<n>G", an int that went into
\* the list as it is, and str() of an int.
Word(s) == [word |-> s]
SizeG(n) == [gigabytes |-> n]
IntArg(n) == [int |-> n]
StrOf(n) == [str_of |-> n]

\* terras = int(size[:-1]) / 1024.0;  if terras >= 1.5
region_needed(size) == 2 * size >= 3 * 1024

\* math.ceil(math.log(terras) / math.log(2)) for terras >= 1: the least k
\* with 2^k >= size / 1024.
RECURSIVE ceil_log2_from(_, _)
ceil_log2_from(size, k) ==
    IF 2 ^ k * 1024 >= size THEN k ELSE ceil_log2_from(size, k + 1)

\* The exponent of the first power of two above size / 1024.
RECURSIVE floor_log2_plus_one(_, _)
floor_log2_plus_one(size, k) ==
    IF 2 ^ k * 1024 > size THEN k ELSE floor_log2_plus_one(size, k + 1)

ceil_log2_above(size) == floor_log2_plus_one(size, 0)

ceil_log2(size) == ceil_log2_from(size, 0)

\* rsize = int(2 ** math.ceil(...))
region_size(size) == 2 ^ ceil_log2(size)

\* cmd = ['lvcreate', '-n', name, self.vg_name]
lvcreate_target_misnamed(name, vg_name) ==
    <<Word("lvcreate"), Word("-n"), Word(vg_name), Word(vg_name)>>

lvcreate_target(name, vg_name) ==
    <<Word("lvcreate"), Word("-n"), Word(name), Word(vg_name)>>

\* The argv create_volume(name, size, type, mirror_count) builds.
create_volume_cmd(vg_name, name, size, type, mirror_count) ==
    lvcreate_target(name, vg_name)
    \o (IF type = "thin"
        THEN <<Word("-T"), Word("-V"), SizeG(size)>>
        ELSE <<Word("-L"), SizeG(size)>>)
    \o (IF mirror_count > 0
        THEN <<Word("-m"), IntArg(mirror_count), Word("--nosync")>>
             \o (IF region_needed(size)
                 THEN <<Word("-R"), StrOf(region_size(size))>>
                 ELSE <<>>)
        ELSE <<>>)

Requests ==
    [name : {"lv0"}, size : 1..MaxSize, type : {"default", "thin"},
     mirror_count : 0..MaxMirrors]

NoCommand == <<>>

CreateIdle ==
    /\ request = [name |-> "lv0", size |-> 1, type |-> "default",
                  mirror_count |-> 0]
    /\ command = NoCommand

CreateInit ==
    /\ request \in Requests
    /\ command = NoCommand

\* create_volume up to the call of putils.execute.
build_create_cmd ==
    /\ command = NoCommand
    /\ command' = create_volume_cmd("vg0", request.name, request.size,
                                    request.type, request.mirror_count)
    /\ UNCHANGED <<request, ssh_vars, parse_vars, lvm_vars, san_vars>>

CreateNext == build_create_cmd

\* -------------------------------------------- inventory and LV operations --
\* None as the vg_name of the static queries.
NoVg == "None"

\* cmd = ['lvs', '--noheadings', '-o', 'vg_name,name,size']
\* if vg_name is not None: cmd += [vg_name]
lvs_cmd_unfiltered(vg_name) == <<"--noheadings", "-o", "vg_name,name,size">>

lvs_cmd(vg_name) ==
    <<"--noheadings", "-o", "vg_name,name,size">>
    \o (IF vg_name # NoVg THEN <<vg_name>> ELSE <<>>)

\* cmd = ['pvs', '--noheadings', '-o', 'vg_name,name,size,free',
\*        '--separator', ':'] (+ [vg_name])
pvs_cmd(vg_name) ==
    <<"--noheadings", "-o", "vg_name,name,size,free", "--separator", ":">>
    \o (IF vg_name # NoVg THEN <<vg_name>> ELSE <<>>)

\* What lvs and pvs do with their argv: they report the volumes of the
\* volume group named last, or of every volume group when none is named, and
\* fail for a name that is no volume group.
lvs_run(argv, fail) ==
    IF Len(argv) = 4
    THEN Cmd("lvs", argv, ~ fail /\ argv[4] \in sys_vgs,
             IF ~ fail /\ argv[4] \in sys_vgs
             THEN lvs_out(argv[4], sys_lvs) ELSE <<>>)
    ELSE Cmd("lvs", argv, ~ fail,
             IF fail THEN <<>>
             ELSE LET rows == SetToSeq(sys_lvs)
                  IN  [i \in 1..Len(rows) |->
                          <<rows[i].vg, rows[i].name, rows[i].size>>])

pvs_run(argv, fail) ==
    IF Len(argv) = 6
    THEN Cmd("pvs", argv, ~ fail /\ argv[6] \in sys_vgs,
             IF ~ fail /\ argv[6] \in sys_vgs
             THEN pvs_out(argv[6], sys_pvs) ELSE <<>>)
    ELSE Cmd("pvs", argv, ~ fail,
             IF fail THEN <<>>
             ELSE LET rows == SetToSeq(sys_pvs)
                  IN  [i \in 1..Len(rows) |->
                          <<rows[i].vg, rows[i].name, rows[i].size,
                            rows[i].available>>])

\* get_all_volumes(vg_name): the command it runs and what it returns or
\* raises (putils.execute raises for a non-zero exit code).
list_volumes(vg_name, fail) ==
    LET q == lvs_run(lvs_cmd(vg_name), fail)
    IN  [cmd |-> q,
         listing |-> IF q.rc # 0 THEN Raised("ProcessExecutionError")
                     ELSE get_all_volumes(q.out)]

list_physical_volumes(vg_name, fail) ==
    LET q == pvs_run(pvs_cmd(vg_name), fail)
    IN  [cmd |-> q,
         listing |-> IF q.rc # 0 THEN Raised("ProcessExecutionError")
                     ELSE get_all_physical_volumes(q.out)]

\* A list as the value of an operation.
ListOf(l) == [list |-> l]

\* The static LVM.get_all_volumes(vg_name): no instance is needed.
get_all_volumes_of(vg_name, fail) ==
    /\ LET f == list_volumes(vg_name, fail)
       IN  /\ cmds' = <<f.cmd>>
           /\ ret' = IF f.listing.status = "ok"
                     THEN Ret("get_all_volumes", <<vg_name>>, "none", "",
                              "list", ListOf(f.listing.value))
                     ELSE Ret("get_all_volumes", <<vg_name>>,
                              f.listing.status, "", "None", NoRecord)
    /\ pre' = SystemNow
    /\ UNCHANGED <<sys_vgs, sys_lvs, sys_pvs, merging, mgr>>
    /\ UNCHANGED <<ssh_vars, parse_vars, san_vars, create_vars>>

\* self.lv_list = self.get_all_volumes(self.vg_name)
keep_lv_list(m, lv_list) == m

set_lv_list(m, lv_list) == [m EXCEPT !.lv_list = lv_list]

\* self.pv_list = self.get_all_physical_volumes(self.vg_name)
set_pv_list(m, pv_list) == [m EXCEPT !.pv_list = pv_list]

\* LVM.get_volumes()
get_volumes(fail) ==
    /\ mgr.constructed
    /\ LET f == list_volumes(mgr.vg_name, fail)
       IN  /\ cmds' = <<f.cmd>>
           /\ IF f.listing.status = "ok"
              THEN /\ mgr' = set_lv_list(mgr, f.listing.value)
                   /\ ret' = Ret("get_volumes", <<>>, "none", "", "list",
                                 ListOf(mgr'.lv_list))
              ELSE /\ mgr' = mgr
                   /\ ret' = Ret("get_volumes", <<>>, f.listing.status, "",
                                 "None", NoRecord)
    /\ pre' = SystemNow
    /\ UNCHANGED <<sys_vgs, sys_lvs, sys_pvs, merging>>
    /\ UNCHANGED <<ssh_vars, parse_vars, san_vars, create_vars>>

\* LVM.get_physical_volumes()
get_physical_volumes(fail) ==
    /\ mgr.constructed
    /\ LET f == list_physical_volumes(mgr.vg_name, fail)
       IN  /\ cmds' = <<f.cmd>>
           /\ IF f.listing.status = "ok"
              THEN /\ mgr' = set_pv_list(mgr, f.listing.value)
                   /\ ret' = Ret("get_physical_volumes", <<>>, "none", "",
                                 "list", ListOf(mgr'.pv_list))
              ELSE /\ mgr' = mgr
                   /\ ret' = Ret("get_physical_volumes", <<>>,
                                 f.listing.status, "", "None", NoRecord)
    /\ pre' = SystemNow
    /\ UNCHANGED <<sys_vgs, sys_lvs, sys_pvs, merging>>
    /\ UNCHANGED <<ssh_vars, parse_vars, san_vars, create_vars>>

\* LVM.get_volume(name): ref_list = self.get_volumes(), then the lookup.
get_volume_call(name, fail) ==
    /\ mgr.constructed
    /\ LET f == list_volumes(mgr.vg_name, fail)
       IN  /\ cmds' = <<f.cmd>>
           /\ IF f.listing.status = "ok"
              THEN /\ mgr' = set_lv_list(mgr, f.listing.value)
                   /\ LET r == get_volume(mgr'.lv_list, name)
                      IN  ret' = IF r.found
                                 THEN Ret("get_volume", <<name>>, "none", "",
                                          "record", r.ref)
                                 ELSE Ret("get_volume", <<name>>, "none", "",
                                          "None", NoRecord)
              ELSE /\ mgr' = mgr
                   /\ ret' = Ret("get_volume", <<name>>, f.listing.status,
                                 "", "None", NoRecord)
    /\ pre' = SystemNow
    /\ UNCHANGED <<sys_vgs, sys_lvs, sys_pvs, merging>>
    /\ UNCHANGED <<ssh_vars, parse_vars, san_vars, create_vars>>

\* What lvcreate does with the argv of create_volume: it makes the LV named
\* after -n in the volume group that follows, with the size given, unless
\* that name is taken there.
lvcreate_run(argv, fail) ==
    LET name == argv[3].word
        vg == argv[4].word
        ok == ~ fail /\ vg \in sys_vgs /\ lvcreate_ok(vg, name)
    IN  [cmd |-> Cmd("lvcreate", Tail(argv), ok, <<>>),
         lvs |-> IF ok
                 THEN {[vg |-> vg, name |-> name,
                        size |-> argv[CHOOSE i \in 5..Len(argv) :
                                         DOMAIN argv[i] = {"gigabytes"}].gigabytes,
                        origin |-> ""]}
                 ELSE {}]

\* LVM.create_volume(name, size, type, mirror_count)
create_volume(name, size, type, mirror_count, fail) ==
    /\ mgr.constructed
    /\ LET cmd == create_volume_cmd(mgr.vg_name, name, size, type,
                                    mirror_count)
           run == lvcreate_run(cmd, fail)
       IN  /\ cmds' = <<run.cmd>>
           /\ sys_lvs' = sys_lvs \cup run.lvs
           /\ ret' = Ret("create_volume", <<name, size, type, mirror_count>>,
                         IF run.cmd.rc = 0 THEN "none"
                         ELSE "ProcessExecutionError",
                         "", "None", NoRecord)
    /\ pre' = SystemNow
    /\ UNCHANGED <<sys_vgs, sys_pvs, merging, mgr>>
    /\ UNCHANGED <<ssh_vars, parse_vars, san_vars, create_vars>>

\* What lvremove -f <vg>/<name> removes: the LV and the snapshots of it.
lvremove_targets(vg, name) ==
    {lv \in sys_lvs : lv.vg = vg /\ (lv.name = name \/ lv.origin = name)}

\* LVM.delete(name)
delete(name, fail) ==
    /\ mgr.constructed
    /\ LET ok == ~ fail /\ \E lv \in sys_lvs :
                               lv.vg = mgr.vg_name /\ lv.name = name
           gone == IF ok THEN lvremove_targets(mgr.vg_name, name) ELSE {}
       IN  /\ cmds' = <<Cmd("lvremove", <<"-f", <<mgr.vg_name, "/", name>> >>,
                            ok, <<>>)>>
           /\ sys_lvs' = sys_lvs \ gone
           /\ merging' = merging \ gone
           /\ ret' = Ret("delete", <<name>>,
                         IF ok THEN "none" ELSE "ProcessExecutionError",
                         "", "None", NoRecord)
    /\ pre' = SystemNow
    /\ UNCHANGED <<sys_vgs, sys_pvs, mgr>>
    /\ UNCHANGED <<ssh_vars, parse_vars, san_vars, create_vars>>

\* Names a caller may ask for: those of the system, a part of one and an
\* extension of one.
QueryNames == LvNames \cup {"lv", "lv0x"}

CreateSizes == {MaxLvs}

\* ----------------------------------------------------- SAN configuration --
\* The defaults of the san_* options.
DefaultFlags == [san_is_local |-> FALSE, san_password |-> "",
                 san_private_key |-> "", san_ip |-> ""]

NotChecked == [raised |-> "unchecked", reason |-> ""]

SanIdle ==
    /\ FLAGS = DefaultFlags
    /\ san_is_local = FALSE
    /\ setup_error = NotChecked

\* The option values a deployment may set.
FlagValues ==
    [san_is_local : BOOLEAN,
     san_password : {"", "secret", "changeme"},
     san_private_key : {"", "/etc/cinder/san.key", "/root/.ssh/id_rsa"},
     san_ip : {"", "10.0.0.1", "san.example.org"}]

SetupInit ==
    /\ FLAGS \in FlagValues
    /\ san_is_local = FLAGS.san_is_local
    /\ setup_error = NotChecked

\* if not FLAGS.san_is_local
remote_always(f) == TRUE

remote_selected(f) == ~ f.san_is_local

\* FLAGS.san_password or FLAGS.san_private_key
has_credentials(f) == f.san_password # "" \/ f.san_private_key # ""

\* check_for_san_setup_error()
check_for_san_setup_error ==
    /\ setup_error' =
          IF remote_selected(FLAGS) /\ ~ has_credentials(FLAGS)
          THEN [raised |-> "InvalidInput",
                reason |-> "Specify san_password or san_private_key"]
          ELSE IF FLAGS.san_ip = ""
          THEN [raised |-> "InvalidInput", reason |-> "san_ip must be set"]
          ELSE [raised |-> "none", reason |-> ""]
    /\ UNCHANGED <<FLAGS, san_is_local>>
    /\ UNCHANGED <<ssh_vars, parse_vars, lvm_vars, create_vars>>

SetupNext == check_for_san_setup_error

\* def _run_ssh(self, command, check_exit_code=True, attempts=1)
attempts_default == 1

\* return self._run_ssh(command, check_exit_code)
san_run_ssh_twice(c) == run_ssh(c, attempts_default + 1)

san_run_ssh(c) == run_ssh(c, attempts_default)

\* What utils.execute does with a local command: it returns the output or
\* raises ProcessExecutionError.
LocalOutcomes == {"return", "ProcessExecutionError"}

\* san_execute(*cmd, **kwargs): the local execution, or _run_ssh with no
\* attempts argument.
san_execute(c, outcome) ==
    IF san_is_local
    THEN /\ pc[c] = "start"
         /\ \A d \in Callers : d < c => pc[d] # "start"
         /\ scheduled(c)
         /\ pc' = [pc EXCEPT ![c] = "done"]
         /\ runs' = [runs EXCEPT ![c] = @ + 1]
         /\ fails' = [fails EXCEPT ![c] = IF outcome = "return" THEN @ ELSE @ + 1]
         /\ result' = [result EXCEPT ![c] =
                          [kind |-> IF outcome = "return" THEN "returned"
                                    ELSE outcome,
                           tried |-> 0]]
         /\ UNCHANGED <<budget, sshpool, current_size, free_items, hub,
                        attempts, total_attempts, ssh, caught, sleeps,
                        released>>
         /\ UNCHANGED <<parse_vars, lvm_vars, san_vars, create_vars>>
    ELSE san_run_ssh(c)

SanInit ==
    /\ FLAGS = DefaultFlags
    /\ san_is_local \in BOOLEAN
    /\ setup_error = NotChecked

SanNext ==
    \E c \in Callers :
        \/ \E o \in LocalOutcomes : san_execute(c, o)
        \/ item_enter(c)
        \/ \E o \in Outcomes : run_ssh_attempt(c, o)
        \/ run_ssh_wake(c)
        \/ run_ssh_exhausted(c)

LvmNext ==
    \/ \E v \in VgNames, create_vg \in BOOLEAN, pvs \in PvArgs,
          fail \in {"none", "vgcreate", "vgs"} :
          lvm_init(v, create_vg, pvs, fail)
    \/ \E name \in SnapNames, source \in LvNames \cup SnapNames,
          type \in {"default", "thin"}, fail \in BOOLEAN :
          create_lv_snapshot(name, source, type, fail)
    \/ \E name \in SnapNames \cup LvNames, fail \in BOOLEAN :
          revert(name, fail)
    \/ \E s \in merging : merge_complete(s)
    \/ update_volume_group_info

\* The manager used for its inventory and for plain volumes: construction,
\* the queries, create_volume and delete.
InventoryNext ==
    \/ \E v \in VgNames : lvm_init(v, FALSE, [given |-> FALSE, list |-> <<>>],
                                    "none")
    \/ \E v \in VgNames \cup {NoVg} : get_all_volumes_of(v, FALSE)
    \/ get_volumes(FALSE)
    \/ get_physical_volumes(FALSE)
    \/ \E name \in QueryNames : get_volume_call(name, FALSE)
    \/ \E name \in LvNames, size \in CreateSizes, type \in {"default", "thin"} :
          create_volume(name, size, type, 0, FALSE)
    \/ \E name \in LvNames : delete(name, FALSE)

\* ------------------------------------------------------ specifications --
SshIdle == SshInit /\ budget = 1

Init == SshInit /\ ParseIdle /\ LvmIdle /\ SanIdle /\ CreateIdle

Next == SshNext

Spec == Init /\ [][Next]_vars

ParseSpecInit == SshIdle /\ ParseInit /\ LvmIdle /\ SanIdle /\ CreateIdle

ParseSpec == ParseSpecInit /\ [][ParseNext]_vars

LvmSpecInit == SshIdle /\ ParseIdle /\ LvmInit /\ SanIdle /\ CreateIdle

LvmSpec == LvmSpecInit /\ [][LvmNext]_vars

InventorySpec == LvmSpecInit /\ [][InventoryNext]_vars

\* The manager used for snapshots, and a merge that was accepted comes to
\* its end, outside this layer.
SnapshotNext ==
    \/ \E v \in VgNames : lvm_init(v, FALSE, [given |-> FALSE, list |-> <<>>],
                                    "none")
    \/ \E name \in SnapNames, source \in LvNames \cup SnapNames,
          type \in {"default", "thin"}, fail \in BOOLEAN :
          create_lv_snapshot(name, source, type, fail)
    \/ \E name \in SnapNames \cup LvNames, fail \in BOOLEAN :
          revert(name, fail)
    \/ \E s \in merging : merge_complete(s)

LvmFairSpec ==
    /\ LvmSpecInit
    /\ [][SnapshotNext]_vars
    /\ WF_vars(\E s \in merging : merge_complete(s))

CreateSpecInit == SshIdle /\ ParseIdle /\ LvmIdle /\ SanIdle /\ CreateInit

CreateSpec == CreateSpecInit /\ [][CreateNext]_vars

SetupSpecInit == SshIdle /\ ParseIdle /\ LvmIdle /\ SetupInit /\ CreateIdle

SetupSpec == SetupSpecInit /\ [][SetupNext]_vars

SanSpecInit == SshIdle /\ ParseIdle /\ LvmIdle /\ SanInit /\ CreateIdle

SanSpec == SanSpecInit /\ [][SanNext]_vars

\* The hub runs every greenthread that can run: a backoff sleep ends, an
\* execution returns or raises, and a waiter is woken when a session is there.
\* Every call has the default budget of the signature, attempts = 1.
FairInit == SshIdle /\ ParseIdle /\ LvmIdle /\ SanIdle /\ CreateIdle

FairSpec ==
    /\ FairInit
    /\ [][Next]_vars
    /\ \A c \in Callers : WF_vars(caller_step(c))

\* ------------------------------------------------------------ claims ----
holders == {c \in Callers : ssh[c] # NoSession}

\* C1: when every execution of a call fails, the command is run exactly
\* `attempts` times, never more, and the call ends with SSHException that
\* carries the attempt budget; it returns no result.
C1_ExhaustedAfterBudget ==
    \A c \in Callers :
        /\ runs[c] <= budget
        /\ (pc[c] = "done" /\ fails[c] = runs[c]) =>
               /\ runs[c] = budget
               /\ result[c] = [kind |-> "SSHException", tried |-> budget]

C1_Witness ==
    \E c \in Callers :
        /\ pc[c] = "done"
        /\ budget >= 2
        /\ fails[c] = budget
        /\ runs[c] = budget
        /\ result[c].kind = "SSHException"

\* C2: an execution error (ProcessExecutionError of a delivered command) is
\* not retried: once it is raised the call is over and that error is its
\* result.
C2_ExecutionErrorNotRetried ==
    \A c \in Callers :
        caught[c] = "ProcessExecutionError" =>
            /\ pc[c] = "done"
            /\ result[c].kind = "ProcessExecutionError"

\* C3: a call's session goes back to the pool exactly once, on return and on
\* failure alike; once every call is over no session is checked out and the
\* pool holds every session it created.
C3_ReleasedOnEveryExit ==
    /\ \A c \in Callers :
          /\ released[c] <= 1
          /\ pc[c] = "done" <=> released[c] = 1
          /\ pc[c] = "done" => ssh[c] = NoSession
          /\ pc[c] \in {"loop", "sleep"} => ssh[c] # NoSession
    /\ (\A c \in Callers : pc[c] \in {"start", "done"}) =>
          /\ holders = {}
          /\ free_items = 1..current_size

C3_Witness ==
    /\ \A c \in Callers : pc[c] = "done" /\ released[c] = 1
    /\ \E c \in Callers : result[c].kind = "returned" /\ fails[c] > 0
    /\ \E c \in Callers : result[c].kind = "SSHException"
    /\ free_items = 1..max_size

\* With max_size + 1 callers on one pool at most max_size sessions are
\* checked out and no session is held by two callers.
C4_Safe ==
    /\ Cardinality(holders) <= max_size
    /\ \A c, d \in Callers : (c # d /\ ssh[c] # NoSession) => ssh[c] # ssh[d]

\* C4: at most max_size sessions are out, none is shared, and under the
\* hub's fair scheduling every caller waiting for a session gets one.
C4_BoundedPoolAndProgress ==
    /\ []C4_Safe
    /\ \A c \in Callers : (pc[c] = "acquire") ~> (ssh[c] # NoSession)

C4_Witness ==
    /\ Cardinality(holders) = max_size
    /\ free_items = {}
    /\ \E c \in Callers : pc[c] = "acquire"
    /\ \E c \in Callers : pc[c] = "sleep"

\* C5 as stated: while a caller sleeps in its backoff every other caller can
\* acquire a session and run its command.
C5_SleepBlocksNobody ==
    \A c, d \in Callers :
        (c # d /\ pc[c] = "sleep") =>
            /\ pc[d] = "acquire" => ENABLED item_enter(d)
            /\ pc[d] = "loop" =>
                  ENABLED (run_ssh_exhausted(d) \/
                           \E o \in Outcomes : run_ssh_attempt(d, o))

\* C5 amended: while a caller sleeps, every caller that holds a session can
\* run its command, and a waiting caller can acquire whenever fewer than
\* max_size sessions are checked out; the sleeper keeps its own session.
C5_SleepYields ==
    \A c, d \in Callers :
        (c # d /\ pc[c] = "sleep") =>
            /\ ssh[c] # NoSession
            /\ (pc[d] = "acquire" /\ Cardinality(holders) < max_size) =>
                  ENABLED item_enter(d)
            /\ pc[d] = "loop" =>
                  ENABLED (run_ssh_exhausted(d) \/
                           \E o \in Outcomes : run_ssh_attempt(d, o))
            /\ pc[d] = "sleep" => ENABLED run_ssh_wake(d)

C5_Witness ==
    \E c, d \in Callers :
        /\ pc[c] = "sleep"
        /\ ssh[c] # NoSession
        /\ pc[d] = "acquire"
        /\ Cardinality(holders) < max_size
        /\ ENABLED item_enter(d)

\* C10 as stated: tool output with a line that has fewer fields than the
\* parser's schema makes the parser fail; no record is returned.
short_line(p) ==
    \E i \in 1..Len(tool_out) :
        Len(tool_out[i]) > 0 /\ Len(tool_out[i]) < Schema[p]

C10_ShortLineIsRejected ==
    \A p \in Parsers :
        (parser = p /\ short_line(p)) => parsed.status # "ok"

\* The names the existence query of the constructor reported, if it ran.
vgs_queries == SelectSeq(cmds, LAMBDA c : c.tool = "vgs" /\ c.rc = 0)

reported_vgs ==
    IF vgs_queries = <<>> THEN {}
    ELSE {split_ws(vgs_queries[1].out)[i] :
             i \in 1..Len(split_ws(vgs_queries[1].out))}

\* C6: construction succeeds only if vg_name is among the names the vgs
\* query reports; when the query runs and vg_name is not among them, it
\* fails with VolumeGroupNotFound for vg_name and leaves no instance,
\* whatever create_vg and physical_volumes are.
C6_ConstructionChecksVg ==
    ret.op = "__init__" =>
        /\ mgr.constructed =>
              /\ vgs_queries # <<>>
              /\ ret.raised = "none"
              /\ mgr.vg_name = ret.args[1]
              /\ mgr.vg_name \in reported_vgs
              /\ mgr.vg_name \in sys_vgs
        /\ (vgs_queries # <<>> /\ ret.args[1] \notin reported_vgs) =>
              /\ ret.raised = "VolumeGroupNotFound"
              /\ ret.about = ret.args[1]
              /\ ~ mgr.constructed

C6_Witness ==
    /\ ret.op = "__init__"
    /\ ret.raised = "VolumeGroupNotFound"
    /\ ret.args[2] = TRUE
    /\ reported_vgs # {}
    /\ ~ mgr.constructed

\* The names in the inventory the last operation fetched with lvs.
fetched_lv_names ==
    IF cmds # <<>> /\ cmds[1].tool = "lvs"
    THEN {cmds[1].out[i][2] : i \in 1..Len(cmds[1].out)}
    ELSE {}

\* C7: create_lv_snapshot whose source is not in the inventory it fetched
\* returns False and issues no lvcreate.
C7_MissingSourceNoSnapshot ==
    (ret.op = "create_lv_snapshot" /\ ret.args[2] \notin fetched_lv_names) =>
        /\ ret.returned = "False"
        /\ ret.raised = "none"
        /\ \A i \in 1..Len(cmds) : cmds[i].tool # "lvcreate"
        /\ \A lv \in sys_lvs : lv.origin # "" => lv \in pre.lvs

C7_Witness ==
    /\ ret.op = "create_lv_snapshot"
    /\ ret.args[2] \notin fetched_lv_names
    /\ fetched_lv_names # {}
    /\ ret.returned = "False"
    /\ Len(cmds) = 1

\* C8 as stated: revert on a name that is no snapshot fails with a
\* not-found error and issues no lvconvert --merge.
NotFoundErrors == {"VolumeGroupNotFound", "NotFound"}

C8_RevertUnknownIssuesNothing ==
    (/\ ret.op = "revert"
     /\ ~ \E lv \in pre.lvs : lv.name = ret.args[1] /\ lv.origin # "") =>
        /\ ret.raised \in NotFoundErrors
        /\ \A i \in 1..Len(cmds) : cmds[i].tool # "lvconvert"

\* C9 as stated: after update_volume_group_info the cached size, free space,
\* LV count and uuid are those of the summary record vgs reports for
\* vg_name, and that record is returned.
C9_VgInfoFromVgs ==
    ret.op = "update_volume_group_info" =>
        LET r == vgs_report(mgr.vg_name, pre.lvs, pre.pvs)
        IN  /\ ret.raised = "none"
            /\ mgr.vg_size = r.size
            /\ mgr.vg_available_space = r.available
            /\ mgr.vg_lv_count = r.lv_count
            /\ mgr.vg_uuid = r.uuid
            /\ ret.value = r

\* Where flag f stands in the command.
flag_positions(f) == {i \in 1..Len(command) : command[i] = Word(f)}

\* n >= 1 has no odd divisor but 1.
is_power_of_two(n) == \A d \in 2..n : n % d = 0 => d % 2 = 0

\* C11: for a size of s gigabytes and mirror_count > 0 the lvcreate command
\* has no -R when s/1024 < 1.5; when s/1024 >= 1.5 it has one -R whose value
\* is the smallest power of two >= s/1024, so exactly s/1024 when that is a
\* power of two.  Without mirrors there is no -R.
C11_RegionSize ==
    command # NoCommand =>
        LET s == request.size
            at == flag_positions("-R")
        IN  /\ (request.mirror_count = 0 \/ 2 * s < 3 * 1024) => at = {}
            /\ (request.mirror_count > 0 /\ 2 * s >= 3 * 1024) =>
                  /\ Cardinality(at) = 1
                  /\ \A i \in at :
                        /\ i = Len(command) - 1
                        /\ DOMAIN command[i + 1] = {"str_of"}
                        /\ LET r == command[i + 1].str_of
                           IN  /\ r >= 1
                               /\ is_power_of_two(r)
                               /\ r * 1024 >= s
                               /\ (r \div 2) * 1024 < s
                               /\ (s % 1024 = 0 /\ is_power_of_two(s \div 1024))
                                     => r = s \div 1024

C11_Witness ==
    /\ request.size = 2048
    /\ request.mirror_count > 0
    /\ command # NoCommand
    /\ command[Len(command)] = StrOf(2)

tool_positions(t) == {i \in 1..Len(cmds) : cmds[i].tool = t}

\* C12: with create_vg set and a PV list supplied the constructor issues
\* exactly one vgcreate, for vg_name over that list, before the vgs query;
\* otherwise it issues no vgcreate.  When the vgcreate fails, construction
\* fails and the vgs query is not reached.
C12_VgCreateFirst ==
    ret.op = "__init__" =>
        LET asked == ret.args[2] /\ ret.args[3].given
        IN  /\ asked =>
                  /\ tool_positions("vgcreate") = {1}
                  /\ cmds[1].argv = <<ret.args[1], <<",", ret.args[3].list>> >>
                  /\ \A i \in tool_positions("vgs") : i > 1
                  /\ cmds[1].rc # 0 =>
                        /\ tool_positions("vgs") = {}
                        /\ ret.raised = "ProcessExecutionError"
                        /\ ~ mgr.constructed
                        /\ sys_vgs = pre.vgs
            /\ ~ asked => tool_positions("vgcreate") = {}

C12_Witness ==
    /\ ret.op = "__init__"
    /\ ret.args[2] /\ ret.args[3].given
    /\ Len(cmds) = 2
    /\ cmds[1].tool = "vgcreate" /\ cmds[1].rc = 0
    /\ cmds[2].tool = "vgs"
    /\ mgr.constructed
    /\ mgr.pv_list = ret.args[3].list

\* The LVs of the manager's volume group that bear the name asked for.
named_lvs(lvs, name) == {lv \in lvs : lv.vg = mgr.vg_name /\ lv.name = name}

LvRecord(lv) == [vg |-> lv.vg, name |-> lv.name, size |-> lv.size]

\* A successful create_volume(n, size, 'default', 0) leaves an LV named n in
\* the manager's volume group.
C13_Created ==
    (/\ ret.op = "create_volume" /\ ret.raised = "none"
     /\ ret.args[3] = "default" /\ ret.args[4] = 0) =>
        named_lvs(sys_lvs, ret.args[1]) # {}

\* No operation but delete takes an LV away, and delete(n) only n and its
\* snapshots.
C13_OnlyDeleteRemoves ==
    \A lv \in sys_lvs :
        lv \notin sys_lvs' =>
            /\ ret'.op = "delete"
            /\ ret'.args[1] \in {lv.name, lv.origin}

\* get_volume(n) for an LV that is there returns the record named n of the
\* manager's volume group.
C13_Found ==
    (/\ ret.op = "get_volume" /\ ret.raised = "none"
     /\ named_lvs(pre.lvs, ret.args[1]) # {}) =>
        /\ ret.returned = "record"
        /\ ret.value.name = ret.args[1]
        /\ ret.value.vg = mgr.vg_name

\* C13: get_volume(n) after a successful create_volume(n, size, 'default', 0)
\* on the same manager returns the record with name n and group vg_name,
\* unless n was deleted in between: the LV is made under that name, only
\* delete removes it, and the lookup finds an LV that is there.
C13_CreateGetRoundTrip ==
    /\ [](C13_Created /\ C13_Found)
    /\ [][C13_OnlyDeleteRemoves]_vars

\* lv0 in the size create_volume gives is an LV that create_volume made.
C13_Witness ==
    /\ ret.op = "get_volume"
    /\ ret.args[1] = "lv0"
    /\ ret.returned = "record"
    /\ ret.value = [vg |-> mgr.vg_name, name |-> "lv0", size |-> MaxLvs]
    /\ MaxLvs # LvSize("lv0")

\* C14: get_volume(name) fetches the inventory of the manager's volume group
\* anew and returns the record whose name is exactly name; when no LV of the
\* group has that name, also when one has a name that contains it or is
\* contained in it, it returns None and raises nothing.
C14_ExactNameLookup ==
    ret.op = "get_volume" =>
        /\ Len(cmds) = 1
        /\ cmds[1].tool = "lvs"
        /\ cmds[1].argv = <<"--noheadings", "-o", "vg_name,name,size",
                            mgr.vg_name>>
        /\ ret.raised = "none"
        /\ IF named_lvs(pre.lvs, ret.args[1]) = {}
           THEN ret.returned = "None" /\ ret.value = NoRecord
           ELSE /\ ret.returned = "record"
                /\ \E lv \in named_lvs(pre.lvs, ret.args[1]) :
                      ret.value = LvRecord(lv)

C14_Witness ==
    /\ ret.op = "get_volume"
    /\ ret.returned = "None"
    /\ ret.raised = "none"
    /\ \E lv \in pre.lvs :
          /\ lv.vg = mgr.vg_name
          /\ name_in(ret.args[1], lv.name)

\* The records of the text a tool printed for the one command of the last
\* operation.
fetched_lvs ==
    [i \in 1..Len(cmds[1].out) |->
        [vg |-> cmds[1].out[i][1], name |-> cmds[1].out[i][2],
         size |-> cmds[1].out[i][3]]]

fetched_pvs ==
    [i \in 1..Len(cmds[1].out) |->
        [vg |-> cmds[1].out[i][1], name |-> cmds[1].out[i][2],
         size |-> cmds[1].out[i][3], available |-> cmds[1].out[i][4]]]

\* The cache, the value returned and the inventory the tool reported in the
\* call are one list.
C15_Fresh ==
    /\ (ret.op = "get_volumes" /\ ret.raised = "none") =>
          /\ cmds[1].tool = "lvs" /\ cmds[1].argv[4] = mgr.vg_name
          /\ ret.value = ListOf(fetched_lvs)
          /\ mgr.lv_list = fetched_lvs
          /\ {mgr.lv_list[i] : i \in 1..Len(mgr.lv_list)}
                = {LvRecord(lv) : lv \in {l \in pre.lvs : l.vg = mgr.vg_name}}
    /\ (ret.op = "get_physical_volumes" /\ ret.raised = "none") =>
          /\ cmds[1].tool = "pvs" /\ cmds[1].argv[6] = mgr.vg_name
          /\ ret.value = ListOf(fetched_pvs)
          /\ mgr.pv_list = fetched_pvs
          /\ {mgr.pv_list[i] : i \in 1..Len(mgr.pv_list)}
                = {pv \in pre.pvs : pv.vg = mgr.vg_name}

\* A query changes no field of the manager but its list.
C15_OnlyThatList ==
    /\ ret'.op = "get_volumes" => mgr' = [mgr EXCEPT !.lv_list = mgr'.lv_list]
    /\ ret'.op = "get_physical_volumes" =>
          mgr' = [mgr EXCEPT !.pv_list = mgr'.pv_list]

\* C15: after get_volumes() the cached lv_list is the list returned, which
\* is the inventory lvs reported for vg_name in that call; after
\* get_physical_volumes() pv_list is the inventory pvs reported in that call;
\* each of the two changes no other field of the manager.
C15_QueriesRefreshCache ==
    /\ []C15_Fresh
    /\ [][C15_OnlyThatList]_vars

\* An LV in a size only create_volume gives was made after construction,
\* when the cache was empty or older.
C15_Witness ==
    /\ ret.op = "get_volumes"
    /\ \E i \in 1..Len(mgr.lv_list) :
          mgr.lv_list[i].size # LvSize(mgr.lv_list[i].name)
    /\ mgr.lv_list = ret.value.list

\* C16: every record get_all_volumes(v) returns for a volume group name v
\* has group v.
C16_OnlyThatGroup ==
    (ret.op = "get_all_volumes" /\ ret.raised = "none" /\ ret.args[1] # NoVg) =>
        \A i \in 1..Len(ret.value.list) : ret.value.list[i].vg = ret.args[1]

C16_Witness ==
    /\ ret.op = "get_all_volumes"
    /\ ret.args[1] \in VgNames
    /\ ret.raised = "none"
    /\ Len(ret.value.list) = MaxLvs
    /\ \E lv \in sys_lvs : lv.vg # ret.args[1]

\* C17: when the source LV is in the inventory the call fetched,
\* create_lv_snapshot issues one lvcreate --snapshot for
\* <vg_name>/<source_lv_name>; for a type other than 'thin' it ends with -L
\* and the size that inventory gives for the source, for 'thin' it has no
\* size.
C17_SnapshotCommand ==
    (ret.op = "create_lv_snapshot" /\ ret.args[2] \in fetched_lv_names) =>
        /\ Len(cmds) = 2
        /\ cmds[2].tool = "lvcreate"
        /\ LET argv == cmds[2].argv
           IN  /\ SubSeq(argv, 1, 4) =
                     <<"--name", ret.args[1], "--snapshot",
                       <<mgr.vg_name, "/", ret.args[2]>> >>
               /\ IF ret.args[3] # "thin"
                  THEN /\ Len(argv) = 6
                       /\ argv[5] = "-L"
                       /\ \E i \in 1..Len(cmds[1].out) :
                             /\ cmds[1].out[i][2] = ret.args[2]
                             /\ argv[6] = cmds[1].out[i][3]
                  ELSE Len(argv) = 4

C17_Witness ==
    /\ ret.op = "create_lv_snapshot"
    /\ ret.args[2] = "lv1"
    /\ ret.args[3] = "default"
    /\ Len(cmds) = 2
    /\ cmds[2].rc = 0
    /\ cmds[2].argv[6] = LvSize("lv1")
    /\ Len(cmds[1].out) = MaxLvs

\* Where LV n of volume group v stands with respect to its snapshots.
lv_state(lvs, mrg, v, n) ==
    LET snaps == {s \in lvs : s.vg = v /\ s.origin = n}
    IN  IF snaps \cap mrg # {} THEN "Merging"
        ELSE IF snaps # {} THEN "ActiveWithSnapshot"
        ELSE "Active"

\* A revert that was accepted issued the one merge command and nothing more,
\* and leaves its snapshot merging and in place: it has returned, the merge
\* has not ended.
C18_RevertReturnsAtOnce ==
    (ret'.op = "revert" /\ ret'.raised = "none" /\ ret' # ret) =>
        /\ Len(cmds') = 1
        /\ cmds'[1].tool = "lvconvert"
        /\ cmds'[1].argv = <<"--merge", ret'.args[1]>>
        /\ sys_lvs' = sys_lvs
        /\ \E s \in merging' \ merging : s.name = ret'.args[1]
        /\ \E n \in LvNames :
              lv_state(sys_lvs', merging', mgr.vg_name, n) = "Merging"

\* The edges an LV takes, and who takes them: a snapshot is created, revert
\* starts the merge, and the merge ends with no operation of the manager.
C18_Lifecycle ==
    \A v \in VgNames, n \in LvNames :
        LET from == lv_state(sys_lvs, merging, v, n)
            to == lv_state(sys_lvs', merging', v, n)
        IN  from # to =>
                \/ /\ from = "Active" /\ to = "ActiveWithSnapshot"
                   /\ ret'.op = "create_lv_snapshot"
                \/ /\ from = "ActiveWithSnapshot" /\ to = "Merging"
                   /\ ret'.op = "revert"
                \/ /\ from = "Merging" /\ to = "Active"
                   /\ UNCHANGED <<mgr, cmds, ret, pre>>

\* C18: revert issues the merge request and returns when it is accepted,
\* while the origin is still Merging; an LV goes Active ->
\* Active-with-snapshot -> Merging and from there, by the external end of the
\* merge, back to Active.
C18_RevertIsAsynchronous ==
    /\ [][C18_RevertReturnsAtOnce /\ C18_Lifecycle]_vars
    /\ \A v \in VgNames, n \in LvNames :
          (lv_state(sys_lvs, merging, v, n) = "Merging")
              ~> (lv_state(sys_lvs, merging, v, n) = "Active")

C18_Witness ==
    /\ ret.op = "revert"
    /\ ret.raised = "none"
    /\ \E s \in merging : s.name = ret.args[1] /\ s \in sys_lvs
    /\ \E n \in LvNames :
          lv_state(sys_lvs, merging, mgr.vg_name, n) = "Merging"

\* C19: check_for_san_setup_error raises a validation error when remote
\* execution is selected and neither password nor private key is set; with
\* local execution selected it raises no error about credentials.
C19_CredentialsChecked ==
    setup_error # NotChecked =>
        /\ (/\ ~ FLAGS.san_is_local
            /\ FLAGS.san_password = ""
            /\ FLAGS.san_private_key = "") =>
              /\ setup_error.raised = "InvalidInput"
              /\ setup_error.reason = "Specify san_password or san_private_key"
        /\ FLAGS.san_is_local =>
              setup_error.reason # "Specify san_password or san_private_key"

C19_Witness ==
    /\ ~ FLAGS.san_is_local
    /\ FLAGS.san_password = ""
    /\ FLAGS.san_private_key = ""
    /\ FLAGS.san_ip # ""
    /\ setup_error.raised = "InvalidInput"

\* C20: a command sent through san_execute in remote mode has an attempt
\* budget of 1: it is run at most once, and one failure of the execution ends
\* the call with an error.
C20_SanExecuteRunsOnce ==
    ~ san_is_local =>
        \A c \in Callers :
            /\ runs[c] <= 1
            /\ pc[c] # "start" => total_attempts[c] = 1
            /\ fails[c] >= 1 =>
                  /\ attempts[c] = 0
                  /\ pc[c] \in {"sleep", "loop", "done"}
                  /\ pc[c] = "done" => result[c].kind = "SSHException"

C20_Witness ==
    /\ ~ san_is_local
    /\ \E c \in Callers :
          /\ pc[c] = "done"
          /\ runs[c] = 1
          /\ fails[c] = 1
          /\ result[c] = [kind |-> "SSHException", tried |-> 1]

\* Every failed attempt is followed by a backoff sleep, taken with the
\* session checked out; a call that ran out of attempts has slept as often
\* as it was allowed to try.
C21_SleepAfterEveryFailure ==
    \A c \in Callers :
        /\ sleeps[c] = fails[c]
        /\ pc[c] = "sleep" => (ssh[c] # NoSession /\ released[c] = 0)
        /\ (pc[c] = "done" /\ result[c].kind = "SSHException") =>
              /\ fails[c] = total_attempts[c]
              /\ sleeps[c] = total_attempts[c]
              /\ released[c] = 1

\* The session a call holds stays the same one until the call is over.
C21_SameSession ==
    \A c \in Callers :
        ssh[c] # NoSession =>
            /\ pc'[c] # "done" => ssh'[c] = ssh[c]
            /\ ssh'[c] # ssh[c] => (ssh'[c] = NoSession /\ pc'[c] = "done")

\* C21: _run_ssh holds the one session it checked out through the whole
\* retry loop, every backoff sleep included, and sleeps after every failed
\* attempt, the last one too: a call that fails all n attempts sleeps n times
\* holding the session, and only then raises and releases it.
C21_SessionHeldThroughSleeps ==
    /\ []C21_SleepAfterEveryFailure
    /\ [][C21_SameSession]_vars

C21_Witness ==
    \E c \in Callers :
        /\ pc[c] = "loop"
        /\ attempts[c] = 0
        /\ total_attempts[c] = MaxAttempts
        /\ sleeps[c] = MaxAttempts
        /\ ssh[c] # NoSession
        /\ released[c] = 0

=============================================================================
